---- MODULE Spec2Model ----
(***************************************************************************)
(* Model of the options signal bot: the batch loop of main.py, the trend   *)
(* classifier and contract selector of signals.py and the contract         *)
(* normaliser of options_api.py.                                           *)
(*                                                                         *)
(* Numbers.  A Python float is modelled as an exact rational [n, d] with   *)
(* d > 0.  A raw JSON number is an integer count of hundredths (a price in *)
(* cents, a delta in hundredths); float() of it is the rational n/100.     *)
(* Open interest is a whole number of contracts.                           *)
(***************************************************************************)
EXTENDS Integers, Sequences, FiniteSets

VARIABLES
    raw,            \* SpecParse: the raw provider record handed to parse_option_contract
    parsed,         \* SpecParse: what parse_option_contract did with it
    history,        \* SpecTrend: the response of the price-history fetch
    trend_info,     \* SpecTrend: what analyze_stock_trend returned
    chain,          \* SpecPick: the response of the option-chain fetch
    trend_in,       \* SpecPick: the trend_info argument of pick_option_for_trend
    today,          \* SpecPick: dt.date.today() as a day ordinal
    picked,         \* SpecPick: what pick_option_for_trend did
    pc,             \* Spec: position of run(): "loop", "done" or "raised"
    i,              \* Spec: index into TICKERS of the next ticker of the for loop
    fetched,        \* Spec: per processed ticker, the responses its fetches got
    signals_found,  \* Spec: the list run() accumulates
    sent            \* Spec: the lists handed to send_email, in order

parseVars == <<raw, parsed>>
trendVars == <<history, trend_info>>
pickVars  == <<chain, trend_in, today, picked>>
runVars   == <<pc, i, fetched, signals_found, sent>>
vars      == <<raw, parsed, history, trend_info, chain, trend_in, today, picked,
               pc, i, fetched, signals_found, sent>>

(***************************************************************************)
(* config.py                                                               *)
(***************************************************************************)
TICKERS == <<"AAPL", "NVDA", "AMZN", "META", "MSFT", "TSLA", "GOOG", "WDC">>
LOOKBACK_DAYS == 90
MA_SHORT == 10
MA_LONG == 20
RSI_PERIOD == 14
MIN_DTE == 10
MAX_DTE == 60
\* 0.35 and -0.35, in hundredths
TARGET_DELTA_CALL == 35
TARGET_DELTA_PUT == -35
MIN_OPEN_INTEREST == 100

(***************************************************************************)
(* Python floats as exact rationals, with None and NaN beside them.        *)
(***************************************************************************)
None == [k |-> "none", n |-> 0, d |-> 1]
NaN  == [k |-> "nan", n |-> 0, d |-> 1]
Rat(num, den) == [k |-> "num", n |-> num, d |-> den]
IsNum(x) == x.k = "num"

Abs(z) == IF z < 0 THEN -z ELSE z

\* Comparisons of floats: every comparison with NaN is False, as in IEEE 754.
RatLt(a, b) == IsNum(a) /\ IsNum(b) /\ a.n * b.d < b.n * a.d
RatLe(a, b) == IsNum(a) /\ IsNum(b) /\ a.n * b.d <= b.n * a.d
RatEq(a, b) == IsNum(a) /\ IsNum(b) /\ a.n * b.d = b.n * a.d

RECURSIVE GCD(_, _)
GCD(x, y) == IF y = 0 THEN x ELSE GCD(y, x % y)
\* num/den in lowest terms, den > 0
Norm(num, den) ==
    LET g == GCD(Abs(num), den)
    IN  Rat(num \div g, den \div g)

RatAdd(a, b) == Norm(a.n * b.d + b.n * a.d, a.d * b.d)
RatSub(a, b) == Norm(a.n * b.d - b.n * a.d, a.d * b.d)
RatMul(a, b) == Norm(a.n * b.n, a.d * b.d)
\* a / b for b # 0; the denominator is kept positive
RatDiv(a, b) == IF b.n < 0 THEN Norm(-(a.n * b.d), a.d * (-b.n))
                ELSE Norm(a.n * b.d, a.d * b.n)
RatAbs(a) == Rat(Abs(a.n), a.d)

(***************************************************************************)
(* Raw JSON values of the provider record.                                 *)
(*   none     the key is missing or null                                   *)
(*   num      a JSON number (v hundredths; open interest: v contracts)     *)
(*   numtext  a JSON string that spells a number, such as "1.20"           *)
(*   text     a JSON string that spells no number, such as "abc"           *)
(***************************************************************************)
RawNone == [k |-> "none", v |-> 0]
RawNum(z) == [k |-> "num", v |-> z]
RawNumText(z) == [k |-> "numtext", v |-> z]
RawText == [k |-> "text", v |-> 0]

\* float(val): the value, or the exception float() raises
pyfloat(val) ==
    CASE val.k = "num"     -> [err |-> "ok", val |-> Norm(val.v, 100)]
      [] val.k = "numtext" -> [err |-> "ok", val |-> Norm(val.v, 100)]
      [] val.k = "text"    -> [err |-> "ValueError", val |-> None]
      [] OTHER             -> [err |-> "TypeError", val |-> None]

\* val > 0 for a value that is not None: a bool, or the TypeError that
\* comparing a str with an int raises
py_gt_zero(val) ==
    IF val.k = "num" THEN [err |-> "ok", val |-> (val.v > 0)]
    ELSE [err |-> "TypeError", val |-> FALSE]

\* _float_or_none, and the same try/except around strike_price
float_or_none(val) ==
    IF val.k = "none" THEN None
    ELSE IF pyfloat(val).err = "ok" THEN pyfloat(val).val ELSE None

\* int(contract.get("open_interest") or 0) inside try/except
parse_open_interest(val) ==
    CASE val.k = "none"    -> 0
      [] val.k = "num"     -> val.v
      [] val.k = "numtext" -> val.v
      [] OTHER             -> 0

\* the mark of parse_option_contract: [err, val]; err # "ok" is an exception
\* that leaves the function
derive_mark(bid, ask, last) ==
    IF bid.k # "none" /\ ask.k # "none"
    THEN IF py_gt_zero(ask).err # "ok"
         THEN [err |-> py_gt_zero(ask).err, val |-> None]
         ELSE IF py_gt_zero(ask).val
              THEN IF pyfloat(bid).err = "ok" /\ pyfloat(ask).err = "ok"
                   THEN [err |-> "ok",
                         val |-> RatDiv(RatAdd(pyfloat(bid).val, pyfloat(ask).val),
                                        Rat(2, 1))]
                   ELSE [err |-> "ok", val |-> None]
              ELSE [err |-> "ok", val |-> float_or_none(last)]
    ELSE [err |-> "ok", val |-> float_or_none(last)]

NoContract ==
    [symbol |-> "", contract_type |-> "", expiration_date |-> RawNone,
     strike_price |-> None, delta |-> None, theta |-> None, gamma |-> None,
     vega |-> None, implied_volatility |-> None, open_interest |-> 0, mark |-> None]

\* parse_option_contract: [status, c]; status "raised" is an exception that
\* reaches the caller
parse_option_contract(contract) ==
    LET m == derive_mark(contract.bid_price, contract.ask_price, contract.last_price)
    IN  IF m.err # "ok"
        THEN [status |-> "raised", c |-> NoContract]
        ELSE [status |-> "ok",
              c |-> [symbol |-> contract.ticker,
                     contract_type |-> contract.contract_type,
                     expiration_date |-> contract.expiration_date,
                     strike_price |-> float_or_none(contract.strike_price),
                     delta |-> float_or_none(contract.delta),
                     theta |-> float_or_none(contract.theta),
                     gamma |-> float_or_none(contract.gamma),
                     vega |-> float_or_none(contract.vega),
                     implied_volatility |-> float_or_none(contract.implied_volatility),
                     open_interest |-> parse_open_interest(contract.open_interest),
                     mark |-> m.val]]

(***************************************************************************)
(* SpecParse: parse_option_contract applied to one raw record.             *)
(***************************************************************************)
\* a raw record, the nested dicts of the provider flattened
RawContract(sym, typ, exp, strike, delta, greek, bid, ask, last, oi, uclose, ulast) ==
    [ticker |-> sym, contract_type |-> typ, expiration_date |-> exp,
     strike_price |-> strike, delta |-> delta, theta |-> greek, gamma |-> greek,
     vega |-> greek, implied_volatility |-> greek,
     bid_price |-> bid, ask_price |-> ask, last_price |-> last,
     open_interest |-> oi, und_close_price |-> uclose, und_last_price |-> ulast]

\* an expiration_date: a "%Y-%m-%d" string of day ordinal v, or something else
RawDate(day) == [k |-> "date", v |-> day]
RawEmpty == [k |-> "empty", v |-> 0]

PriceChoices == {RawNone, RawNum(-300), RawNum(0), RawNum(100), RawNum(105),
                 RawNum(120), RawNumText(120), RawText}
FieldChoices == {RawNone, RawNum(30), RawText}
OiChoices == {RawNone, RawNum(99), RawNum(100), RawNumText(150), RawText}

ParseInputs ==
    {RawContract("O:AAPL", "call", RawDate(30), strike, delta, greek, bid, ask, last,
                 oi, RawNone, RawNone) :
        strike \in FieldChoices, delta \in FieldChoices, greek \in {RawNone, RawText},
        bid \in PriceChoices, ask \in PriceChoices, last \in PriceChoices,
        oi \in OiChoices}

NoRaw == RawContract("", "", RawNone, RawNone, RawNone, RawNone, RawNone, RawNone,
                     RawNone, RawNone, RawNone, RawNone)
NotParsed == [status |-> "pending", c |-> NoContract]

Parse ==
    /\ parsed.status = "pending"
    /\ parsed' = parse_option_contract(raw)
    /\ UNCHANGED <<raw, trendVars, pickVars, runVars>>

(***************************************************************************)
(* indicators.py (sma, rsi), as section 4.1 of the specification describes *)
(* them: the latest value of each indicator, which is all that             *)
(* analyze_stock_trend reads (.iloc[-1]).                                  *)
(***************************************************************************)
RECURSIVE SumSeq(_)
SumSeq(s) == IF s = <<>> THEN 0 ELSE s[1] + SumSeq(Tail(s))

\* the last n elements of s (all of s when it is shorter): df.tail(n)
LastN(s, n) == IF Len(s) <= n THEN s ELSE SubSeq(s, Len(s) - n + 1, Len(s))

\* mean of the last `window` closes; undefined (NaN) on a shorter series
sma(closes, window) ==
    IF Len(closes) < window THEN NaN
    ELSE Norm(SumSeq(LastN(closes, window)), window * 100)

\* the per-step price deltas of a series
Deltas(closes) == [j \in 1..(Len(closes) - 1) |-> closes[j + 1] - closes[j]]
RECURSIVE Gain(_)
Gain(ds) == IF ds = <<>> THEN 0
            ELSE (IF ds[1] > 0 THEN ds[1] ELSE 0) + Gain(Tail(ds))
RECURSIVE Loss(_)
Loss(ds) == IF ds = <<>> THEN 0
            ELSE (IF ds[1] < 0 THEN -ds[1] ELSE 0) + Loss(Tail(ds))

\* 100 - 100 / (1 + avg_gain / avg_loss) over the last `period` deltas;
\* 100 when only avg_loss is 0, 50 when both are; NaN below period + 1 closes
rsi(closes, period) ==
    IF Len(closes) < period + 1 THEN NaN
    ELSE LET ds == LastN(Deltas(closes), period)
             g  == Gain(ds)
             l  == Loss(ds)
         IN  IF l = 0 THEN (IF g > 0 THEN Rat(100, 1) ELSE Rat(50, 1))
             ELSE Norm(100 * g, g + l)

(***************************************************************************)
(* options_api.py: get_stock_history_daily, and signals.py:                *)
(* analyze_stock_trend.  A fetch response is what _get met: an HTTP or      *)
(* network error, which raises, or the JSON body.                          *)
(***************************************************************************)
HistoryResponse(st, hc, cl) == [status |-> st, has_close |-> hc, closes |-> cl]

\* the DataFrame: [status, empty, has_close, closes]
get_stock_history_daily(resp) ==
    IF resp.status = "error"
    THEN [status |-> "raised", empty |-> TRUE, has_close |-> FALSE, closes |-> <<>>]
    ELSE IF resp.closes = <<>>
    THEN [status |-> "ok", empty |-> TRUE, has_close |-> FALSE, closes |-> <<>>]
    ELSE [status |-> "ok", empty |-> FALSE, has_close |-> resp.has_close,
          closes |-> LastN(resp.closes, LOOKBACK_DAYS)]

\* the if / elif / else of analyze_stock_trend
classify_trend_exclusive(s, l, r) ==
    IF RatLt(l, s) /\ RatLt(Rat(40, 1), r) /\ RatLt(r, Rat(70, 1)) THEN "bullish"
    ELSE IF RatLt(s, l) /\ RatLt(Rat(30, 1), r) /\ RatLt(r, Rat(60, 1)) THEN "bearish"
    ELSE "neutral"

classify_trend(s, l, r) ==
    IF RatLt(l, s) /\ RatLe(Rat(40, 1), r) /\ RatLe(r, Rat(70, 1)) THEN "bullish"
    ELSE IF RatLt(s, l) /\ RatLe(Rat(30, 1), r) /\ RatLe(r, Rat(60, 1)) THEN "bearish"
    ELSE "neutral"

TrendInfo(t, lc, s, l, r) ==
    [trend |-> t, latest_close |-> lc, sma_short |-> s, sma_long |-> l, rsi |-> r]
NoData == TrendInfo("no_data", None, None, None, None)

\* analyze_stock_trend: [status, info]; status "raised" is an exception that
\* reaches the caller
analyze_stock_trend(resp) ==
    LET df == get_stock_history_daily(resp)
    IN  IF df.status = "raised" THEN [status |-> "raised", info |-> NoData]
        ELSE IF df.empty \/ ~df.has_close THEN [status |-> "returned", info |-> NoData]
        ELSE LET s == sma(df.closes, MA_SHORT)
                 l == sma(df.closes, MA_LONG)
                 r == rsi(df.closes, RSI_PERIOD)
             IN  [status |-> "returned",
                  info |-> TrendInfo(classify_trend(s, l, r),
                                     Norm(df.closes[Len(df.closes)], 100), s, l, r)]

(***************************************************************************)
(* SpecTrend: analyze_stock_trend applied to one fetch response.           *)
(***************************************************************************)
\* the longest series drawn
MaxBars == 21
\* the level the walk starts from: 50.00, in cents
Base == 50 * 100
PrefixLevels == {1000, Base, 9000}
Amps == {0, 29, 30, 31, 39, 40, 41, 59, 60, 61, 69, 70, 71}

\* RSI_PERIOD + 1 closes from Base: RSI_PERIOD deltas, alternately +up and -down
Walk(up, down) ==
    [j \in 1..(RSI_PERIOD + 1) |-> Base + ((j - 1) \div 2) * (up - down)
                          + (IF (j - 1) % 2 = 1 THEN up ELSE 0)]
\* older closes at level q, then the walk
FullSeries(q, up, down) == [j \in 1..(MaxBars - (RSI_PERIOD + 1)) |-> q] \o Walk(up, down)

SeriesChoices ==
    {LastN(FullSeries(q, up, down), len) :
        q \in PrefixLevels, up \in Amps, down \in Amps, len \in 0..MaxBars}

HistoryInputs ==
    {HistoryResponse("ok", TRUE, cl) : cl \in SeriesChoices}
    \cup {HistoryResponse("ok", FALSE, LastN(FullSeries(Base, 40, 60), len)) :
              len \in 0..MaxBars}
    \cup {HistoryResponse("error", FALSE, <<>>)}

NoHistory == HistoryResponse("none", FALSE, <<>>)
NotAnalyzed == [status |-> "pending", info |-> NoData]

Analyze ==
    /\ trend_info.status = "pending"
    /\ trend_info' = analyze_stock_trend(history)
    /\ UNCHANGED <<history, parseVars, pickVars, runVars>>

(***************************************************************************)
(* options_api.py: get_option_chain_snapshot and                           *)
(* extract_underlying_price_from_chain.                                    *)
(***************************************************************************)
ChainResponse(st, rs) == [status |-> st, results |-> rs]

\* [status, chain]: the results list, or the exception of _get
get_option_chain_snapshot(resp) ==
    IF resp.status = "error" THEN [status |-> "raised", chain |-> <<>>]
    ELSE [status |-> "ok", chain |-> resp.results]

\* float(x) inside try/except (TypeError, ValueError), for x that is not None
TryFloat(val) == float_or_none(val)

RECURSIVE extract_underlying_price_from_chain(_)
extract_underlying_price_from_chain(ch) ==
    IF ch = <<>> THEN None
    ELSE LET contract == ch[1]
         IN  IF contract.und_close_price.k # "none"
                /\ TryFloat(contract.und_close_price) # None
             THEN TryFloat(contract.und_close_price)
             ELSE IF contract.und_last_price.k # "none"
                     /\ TryFloat(contract.und_last_price) # None
             THEN TryFloat(contract.und_last_price)
             ELSE extract_underlying_price_from_chain(Tail(ch))

(***************************************************************************)
(* signals.py: _days_to_expiry and pick_option_for_trend.                  *)
(***************************************************************************)
NoDays == [k |-> "none", v |-> 0]
Days(z) == [k |-> "int", v |-> z]

\* strptime(expiration_date, "%Y-%m-%d").date() - today, in days; None when
\* strptime raises (a string that is no date, or a value that is no string)
days_to_expiry(expiration_date, day) ==
    IF expiration_date.k = "date" THEN Days(expiration_date.v - day) ELSE NoDays

\* not c.get("expiration_date"): None, "" and 0 are falsy
Falsy(val) == val.k \in {"none", "empty"} \/ (val.k = "num" /\ val.v = 0)

\* passes_filter with the lower expiry bound exclusive (dte <= MIN_DTE dropped)
passes_filter_exclusive_dte(c, day) ==
    /\ ~Falsy(c.expiration_date)
    /\ c.strike_price # None
    /\ days_to_expiry(c.expiration_date, day) # NoDays
    /\ days_to_expiry(c.expiration_date, day).v > MIN_DTE
    /\ days_to_expiry(c.expiration_date, day).v <= MAX_DTE
    /\ c.open_interest >= MIN_OPEN_INTEREST
    /\ c.delta # None
    /\ c.mark # None
    /\ RatLt(Rat(0, 1), c.mark)

\* the four `continue` tests of the filter loop, negated: c becomes a candidate
passes_filter(c, day) ==
    /\ ~Falsy(c.expiration_date)
    /\ c.strike_price # None
    /\ days_to_expiry(c.expiration_date, day) # NoDays
    /\ days_to_expiry(c.expiration_date, day).v >= MIN_DTE
    /\ days_to_expiry(c.expiration_date, day).v <= MAX_DTE
    /\ c.open_interest >= MIN_OPEN_INTEREST
    /\ c.delta # None
    /\ c.mark # None
    /\ RatLt(Rat(0, 1), c.mark)

\* {**c, "dte": dte}
WithDte(c, j, day) ==
    [c |-> c, dte |-> days_to_expiry(c.expiration_date, day).v, pos |-> j]

\* the filter loop from position j on, with `acc` the list built so far:
\* [status, parsed]; an exception of parse_option_contract leaves the loop
RECURSIVE filter_chain(_, _, _, _)
filter_chain(ch, j, acc, day) ==
    IF j > Len(ch) THEN [status |-> "ok", parsed |-> acc]
    ELSE LET p == parse_option_contract(ch[j])
         IN  IF p.status = "raised" THEN [status |-> "raised", parsed |-> acc]
             ELSE IF passes_filter(p.c, day)
             THEN filter_chain(ch, j + 1, Append(acc, WithDte(p.c, j, day)), day)
             ELSE filter_chain(ch, j + 1, acc, day)

\* abs((c["delta"] or 0) - target_delta), target in hundredths
delta_distance(e, target) ==
    RatAbs(RatSub(IF e.c.delta = None THEN Rat(0, 1) ELSE e.c.delta, Norm(target, 100)))

\* KeyLe with the key delta_distance(c) alone, without c["dte"]
KeyLe_distance_only(a, b, target) ==
    RatLe(delta_distance(a, target), delta_distance(b, target))

\* the sort key (delta_distance(c), c["dte"]) of a is at most that of b
KeyLe(a, b, target) ==
    \/ RatLt(delta_distance(a, target), delta_distance(b, target))
    \/ /\ RatEq(delta_distance(a, target), delta_distance(b, target))
       /\ a.dte <= b.dte

\* x put into the sorted list s behind every element whose key is not larger
RECURSIVE InsertSorted(_, _, _)
InsertSorted(s, x, target) ==
    IF s = <<>> THEN <<x>>
    ELSE IF KeyLe(s[1], x, target) THEN <<s[1]>> \o InsertSorted(Tail(s), x, target)
    ELSE <<x>> \o s

\* parsed.sort(key=...): a stable sort
RECURSIVE sort_by_key(_, _)
sort_by_key(s, target) ==
    IF s = <<>> THEN <<>>
    ELSE InsertSorted(sort_by_key(SubSeq(s, 1, Len(s) - 1), target), s[Len(s)], target)

\* projection with projected_underlying_change = (underlying_price or 0) * move_pct
projection_change_always(underlying_price, best, trend) ==
    LET move_pct == IF trend = "bearish" THEN Norm(-5, 100) ELSE Norm(5, 100)
        puc == IF underlying_price # None THEN RatMul(underlying_price, move_pct)
               ELSE Rat(0, 1)
        has == underlying_price # None /\ best.c.mark # None /\ best.c.mark.n # 0
        poc == IF has
               THEN RatMul(IF best.c.delta = None THEN Rat(0, 1) ELSE best.c.delta, puc)
               ELSE None
    IN  [projected_underlying_change |-> puc,
         projected_option_change |-> poc,
         projected_return_pct |->
             IF has THEN RatMul(RatDiv(poc, best.c.mark), Rat(100, 1)) ELSE None]

\* projection with move_pct = 0.05 whatever the trend
projection_unsigned_move(underlying_price, best, trend) ==
    LET move_pct == Norm(5, 100)
        puc == IF underlying_price # None THEN RatMul(underlying_price, move_pct)
               ELSE None
        has == underlying_price # None /\ best.c.mark # None /\ best.c.mark.n # 0
        poc == IF has
               THEN RatMul(IF best.c.delta = None THEN Rat(0, 1) ELSE best.c.delta, puc)
               ELSE None
    IN  [projected_underlying_change |-> puc,
         projected_option_change |-> poc,
         projected_return_pct |->
             IF has THEN RatMul(RatDiv(poc, best.c.mark), Rat(100, 1)) ELSE None]

\* the projection of pick_option_for_trend: the three projected_* fields
projection(underlying_price, best, trend) ==
    LET move_pct == IF trend = "bearish" THEN Norm(-5, 100) ELSE Norm(5, 100)
        puc == IF underlying_price # None THEN RatMul(underlying_price, move_pct)
               ELSE None
        has == underlying_price # None /\ best.c.mark # None /\ best.c.mark.n # 0
        poc == IF has
               THEN RatMul(IF best.c.delta = None THEN Rat(0, 1) ELSE best.c.delta, puc)
               ELSE None
    IN  [projected_underlying_change |-> puc,
         projected_option_change |-> poc,
         projected_return_pct |->
             IF has THEN RatMul(RatDiv(poc, best.c.mark), Rat(100, 1)) ELSE None]

NoSignal ==
    [ticker |-> "", trend |-> "", underlying_price |-> None, option_symbol |-> "",
     contract_type |-> "", strike_price |-> None, expiration_date |-> RawNone,
     delta |-> None, open_interest |-> 0, mark |-> None, dte |-> 0, pos |-> 0,
     projected_underlying_change |-> None, projected_option_change |-> None,
     projected_return_pct |-> None]

\* the dict pick_option_for_trend returns (pos: the place of the contract in
\* the chain, kept to tell equal contracts apart)
Signal(ticker, trend, underlying_price, best) ==
    LET pr == projection(underlying_price, best, trend)
    IN  [ticker |-> ticker, trend |-> trend, underlying_price |-> underlying_price,
         option_symbol |-> best.c.symbol, contract_type |-> best.c.contract_type,
         strike_price |-> best.c.strike_price,
         expiration_date |-> best.c.expiration_date, delta |-> best.c.delta,
         open_interest |-> best.c.open_interest, mark |-> best.c.mark,
         dte |-> best.dte, pos |-> best.pos,
         projected_underlying_change |-> pr.projected_underlying_change,
         projected_option_change |-> pr.projected_option_change,
         projected_return_pct |-> pr.projected_return_pct]

\* x or y, for floats: None and 0.0 are falsy
FloatOr(x, y) == IF x = None \/ (x.k = "num" /\ x.n = 0) THEN y ELSE x

PickResult(st, has, sig, cands) ==
    [status |-> st, has_signal |-> has, signal |-> sig, candidates |-> cands]

\* pick_option_for_trend: status "returned" with a Signal or with None, or
\* "raised"; candidates is the list `parsed` as the function left it
pick_option_for_trend(ticker, info, resp, day) ==
    IF info.trend \notin {"bullish", "bearish"}
    THEN PickResult("returned", FALSE, NoSignal, <<>>)
    ELSE LET contract_type == IF info.trend = "bullish" THEN "call" ELSE "put"
             got == get_option_chain_snapshot(resp)
         IN  IF got.status = "raised" THEN PickResult("raised", FALSE, NoSignal, <<>>)
             ELSE IF got.chain = <<>> THEN PickResult("returned", FALSE, NoSignal, <<>>)
             ELSE LET underlying_price ==
                          FloatOr(extract_underlying_price_from_chain(got.chain),
                                  info.latest_close)
                      f == filter_chain(got.chain, 1, <<>>, day)
                      target_delta == IF contract_type = "call" THEN TARGET_DELTA_CALL
                                      ELSE TARGET_DELTA_PUT
                  IN  IF f.status = "raised"
                      THEN PickResult("raised", FALSE, NoSignal, f.parsed)
                      ELSE IF f.parsed = <<>>
                      THEN PickResult("returned", FALSE, NoSignal, <<>>)
                      ELSE LET sorted == sort_by_key(f.parsed, target_delta)
                           IN  PickResult("returned", TRUE,
                                          Signal(ticker, info.trend, underlying_price,
                                                 sorted[1]),
                                          sorted)

(***************************************************************************)
(* SpecPick: pick_option_for_trend applied to one trend_info and one       *)
(* chain response, on one evaluation day.                                  *)
(***************************************************************************)
\* the longest chain drawn from SelectionContracts
MaxChain == 2

TodayChoices == {0, 1}
\* a contract every filter test accepts: delta dl, expiry on day ex
Good(dl, ex, uclose, ulast) ==
    RawContract("O:OPT", "call", RawDate(ex), RawNum(15000), RawNum(dl), RawNum(-2),
                RawNum(240), RawNum(260), RawNum(245), RawNum(500), uclose, ulast)

\* one-contract chains: every combination of the fields the filter reads
ExpChoices == {RawNone, RawEmpty, RawText, RawNum(20300101),
               RawDate(10), RawDate(11), RawDate(60), RawDate(61)}
QuoteChoices == {<<RawNum(100), RawNum(120), RawNone>>,
                 <<RawNone, RawNone, RawNone>>,
                 <<RawNone, RawNone, RawNum(0)>>,
                 <<RawNone, RawNone, RawNum(-105)>>,
                 <<RawNone, RawNum(120), RawNum(105)>>,
                 <<RawNum(100), RawText, RawNum(105)>>}
FilterContracts ==
    {RawContract("O:ONE", "call", exp, strike, delta, RawNone, q[1], q[2], q[3], oi,
                 RawNone, RawNone) :
        exp \in ExpChoices, strike \in FieldChoices, delta \in FieldChoices,
        q \in QuoteChoices, oi \in OiChoices}

\* contracts for selection: deltas on both sides of the targets, two expiries,
\* one with too little open interest, one whose ask is text, and the ways a
\* record carries the underlying price
SelectionContracts ==
    {Good(dl, ex, RawNone, RawNone) : dl \in {30, 36, 40, -30, -40}, ex \in {16, 31}}
    \cup {Good(0, 31, RawNum(10000), RawNone),
          Good(50, 16, RawText, RawNum(9900)),
          Good(-50, 16, RawNum(0), RawNone),
          RawContract("O:LOW", "call", RawDate(31), RawNum(15000), RawNum(35), RawNone,
                      RawNum(240), RawNum(260), RawNone, RawNum(50), RawNone, RawNone),
          RawContract("O:BAD", "call", RawDate(31), RawNum(15000), RawNum(35), RawNone,
                      RawNum(240), RawNumText(260), RawNone, RawNum(500), RawNone,
                      RawNone)}

RECURSIVE SeqsUpTo(_, _)
SeqsUpTo(S, n) ==
    IF n = 0 THEN {<<>>}
    ELSE SeqsUpTo(S, n - 1)
         \cup {Append(q, x) : q \in {r \in SeqsUpTo(S, n - 1) : Len(r) = n - 1}, x \in S}

ChainInputs ==
    {ChainResponse("ok", <<c>>) : c \in FilterContracts}
    \cup {ChainResponse("ok", ch) : ch \in SeqsUpTo(SelectionContracts, MaxChain)}
    \cup {ChainResponse("error", <<>>)}

TrendInputs ==
    {TrendInfo(t, lc, Rat(51, 1), Rat(50, 1), Rat(55, 1)) :
        t \in {"bullish", "bearish"}, lc \in {None, Rat(100, 1), Rat(0, 1)}}
    \cup {TrendInfo("neutral", Rat(100, 1), Rat(50, 1), Rat(50, 1), Rat(55, 1)),
          NoData}

NoChain == ChainResponse("none", <<>>)
NotPicked == PickResult("pending", FALSE, NoSignal, <<>>)

Pick ==
    /\ picked.status = "pending"
    /\ picked' = pick_option_for_trend("AAPL", trend_in, chain, today)
    /\ UNCHANGED <<chain, trend_in, today, parseVars, trendVars, runVars>>

(***************************************************************************)
(* main.py: run().  One step per ticker of the for loop (a step fetches    *)
(* the history and, for a bullish or bearish trend, the chain), then the   *)
(* end of run(): the return on an empty list, or build_email and           *)
(* send_email.                                                             *)
(***************************************************************************)
\* the tickers of TICKERS a run scans: its first MaxTickers
MaxTickers == 3

\* the responses the fetches of a run may get
RunHistories ==
    {HistoryResponse("error", FALSE, <<>>),
     HistoryResponse("ok", TRUE, <<>>),
     HistoryResponse("ok", TRUE, LastN(FullSeries(1000, 40, 60), MA_SHORT)),
     HistoryResponse("ok", TRUE, FullSeries(1000, 40, 60)),
     HistoryResponse("ok", TRUE, FullSeries(9000, 40, 60)),
     HistoryResponse("ok", TRUE, FullSeries(Base, 0, 0))}
RunChains ==
    {ChainResponse("error", <<>>),
     ChainResponse("ok", <<>>),
     ChainResponse("ok", <<Good(30, 31, RawNone, RawNone)>>),
     ChainResponse("ok", <<Good(-40, 31, RawNone, RawNone),
                           Good(-30, 16, RawNum(10000), RawNone)>>),
     ChainResponse("ok", <<RawContract("O:LOW", "call", RawDate(31), RawNum(15000),
                                       RawNum(35), RawNone, RawNum(240), RawNum(260),
                                       RawNone, RawNum(50), RawNone, RawNone)>>),
     ChainResponse("ok", <<Good(36, 31, RawNone, RawNone),
                           RawContract("O:BAD", "call", RawDate(31), RawNum(15000),
                                       RawNum(35), RawNone, RawNum(240),
                                       RawNumText(260), RawNone, RawNum(500), RawNone,
                                       RawNone)>>)}

\* what one ticker's fetches got; chain is NoChain when it was not fetched
Fetched(h, c) == [hist |-> h, chain |-> c]

\* one iteration of `for ticker in TICKERS`
RunTicker ==
    /\ pc = "loop"
    /\ i <= MaxTickers /\ i <= Len(TICKERS)
    /\ \E h \in RunHistories, r \in RunChains :
          LET t == analyze_stock_trend(h)
              p == pick_option_for_trend(TICKERS[i], t.info, r, today)
          IN  IF t.status = "raised"
              THEN /\ pc' = "raised"
                   /\ fetched' = Append(fetched, Fetched(h, NoChain))
                   /\ UNCHANGED <<i, signals_found>>
              ELSE IF t.info.trend \notin {"bullish", "bearish"}
              THEN /\ i' = i + 1
                   /\ fetched' = Append(fetched, Fetched(h, NoChain))
                   /\ UNCHANGED <<pc, signals_found>>
              ELSE IF p.status = "raised"
              THEN /\ pc' = "raised"
                   /\ fetched' = Append(fetched, Fetched(h, r))
                   /\ UNCHANGED <<i, signals_found>>
              ELSE /\ i' = i + 1
                   /\ fetched' = Append(fetched, Fetched(h, r))
                   /\ signals_found' = IF p.has_signal
                                       THEN Append(signals_found, p.signal)
                                       ELSE signals_found
                   /\ pc' = pc
    /\ UNCHANGED <<sent, today, chain, trend_in, picked, parseVars, trendVars>>

\* after the loop: `if not signals_found: return`, else the email
RunFinish ==
    /\ pc = "loop"
    /\ ~(i <= MaxTickers /\ i <= Len(TICKERS))
    /\ pc' = "done"
    /\ sent' = IF signals_found = <<>> THEN sent ELSE Append(sent, signals_found)
    /\ UNCHANGED <<i, fetched, signals_found, today, chain, trend_in, picked,
                   parseVars, trendVars>>

(***************************************************************************)
(* The specifications.                                                     *)
(***************************************************************************)
ParseIdle == raw = NoRaw /\ parsed = NotParsed
TrendIdle == history = NoHistory /\ trend_info = NotAnalyzed
PickIdle  == chain = NoChain /\ trend_in = NoData /\ picked = NotPicked
RunIdle   == pc = "idle" /\ i = 1 /\ fetched = <<>> /\ signals_found = <<>>
             /\ sent = <<>>

Init ==
    /\ pc = "loop" /\ i = 1 /\ fetched = <<>> /\ signals_found = <<>> /\ sent = <<>>
    /\ today = 0
    /\ ParseIdle /\ TrendIdle /\ PickIdle
Next == RunTicker \/ RunFinish
Spec == Init /\ [][Next]_vars

InitParse ==
    /\ raw \in ParseInputs /\ parsed = NotParsed
    /\ today = 0
    /\ TrendIdle /\ PickIdle /\ RunIdle
NextParse == Parse
SpecParse == InitParse /\ [][NextParse]_vars

InitTrend ==
    /\ history \in HistoryInputs /\ trend_info = NotAnalyzed
    /\ today = 0
    /\ ParseIdle /\ PickIdle /\ RunIdle
NextTrend == Analyze
SpecTrend == InitTrend /\ [][NextTrend]_vars

InitPick ==
    /\ chain \in ChainInputs /\ trend_in \in TrendInputs /\ today \in TodayChoices
    /\ picked = NotPicked
    /\ ParseIdle /\ TrendIdle /\ RunIdle
NextPick == Pick
SpecPick == InitPick /\ [][NextPick]_vars

(***************************************************************************)
(* Properties of run() (Spec).                                             *)
(***************************************************************************)
\* the number of tickers a run scans
ScanLen == IF MaxTickers < Len(TICKERS) THEN MaxTickers ELSE Len(TICKERS)
Ended == pc \in {"done", "raised"}
FetchFailed(f) == f.hist.status = "error" \/ f.chain.status = "error"
\* what send_email was handed
Delivered == IF sent = <<>> THEN <<>> ELSE sent[Len(sent)]
SignalsFor(list, j) == {m \in 1..Len(list) : list[m].ticker = TICKERS[j]}

\* the eligibility of section 4.4, read off the raw record and its
\* normalisation: the expiration is a date, the strike is there, the days
\* to expiration lie in [MIN_DTE, MAX_DTE], the open interest is at least
\* MIN_OPEN_INTEREST, the delta is there, the mark is there and positive
EligibleRaw(contract, day) ==
    LET p == parse_option_contract(contract)
    IN  /\ p.status = "ok"
        /\ contract.expiration_date.k = "date"
        /\ p.c.strike_price.k = "num"
        /\ contract.expiration_date.v - day \in MIN_DTE..MAX_DTE
        /\ ~(p.c.open_interest < MIN_OPEN_INTEREST)
        /\ p.c.delta.k = "num"
        /\ p.c.mark.k = "num" /\ p.c.mark.n > 0

\* the ticker had a bullish or bearish trend and an eligible contract
Qualifies(f) ==
    /\ analyze_stock_trend(f.hist).info.trend \in {"bullish", "bearish"}
    /\ \E k \in 1..Len(f.chain.results) : EligibleRaw(f.chain.results[k], today)

\* C1: a fetch that raises for one ticker does not abort run(): that ticker
\* yields no Signal, every later ticker is still processed, and the Signals of
\* the other tickers are delivered.
C1_FetchFailureDoesNotAbort ==
    \A j \in 1..Len(fetched) :
        FetchFailed(fetched[j]) =>
            /\ pc # "raised"
            /\ SignalsFor(signals_found, j) = {}
            /\ pc = "done" =>
                  /\ Len(fetched) = ScanLen
                  /\ Delivered = signals_found

\* C9: when no fetch fails, a run that has ended handed send_email exactly
\* one Signal for each ticker with a bullish or bearish trend and an eligible
\* contract, none for any other ticker, and nothing at all when no ticker has
\* a Signal.
C9_OneSignalPerQualifyingTicker ==
    (Ended /\ \A j \in 1..Len(fetched) : ~FetchFailed(fetched[j])) =>
        /\ \A j \in 1..Len(fetched) :
              Cardinality(SignalsFor(Delivered, j))
                  = IF Qualifies(fetched[j]) THEN 1 ELSE 0
        /\ Len(sent) <= 1
        /\ (\A j \in 1..Len(fetched) : ~Qualifies(fetched[j])) => sent = <<>>

(***************************************************************************)
(* Properties of analyze_stock_trend (SpecTrend).                          *)
(***************************************************************************)
Analyzed == trend_info.status # "pending"

\* C2: a series with fewer than MA_LONG bars, empty or not, yields no_data:
\* never bullish, bearish or neutral, and never an exception.
C2_ShortSeriesNoData ==
    (Analyzed /\ history.status = "ok" /\ Len(history.closes) < MA_LONG) =>
        /\ trend_info.status = "returned"
        /\ trend_info.info.trend = "no_data"

\* C3: with enough history the label is bullish iff sma_short > sma_long and
\* 40 <= rsi <= 70, bearish iff sma_short < sma_long and 30 <= rsi <= 60, and
\* neutral otherwise; the bounds are inclusive and the labels exclusive.
C3_TrendLabel ==
    (Analyzed /\ history.status = "ok" /\ history.has_close
        /\ Len(history.closes) >= MA_LONG) =>
        LET t == trend_info.info
            \* the reported values, over the common denominator
            s == t.sma_short.n * t.sma_long.d
            l == t.sma_long.n * t.sma_short.d
            up == s > l /\ 40 * t.rsi.d <= t.rsi.n /\ t.rsi.n <= 70 * t.rsi.d
            down == s < l /\ 30 * t.rsi.d <= t.rsi.n /\ t.rsi.n <= 60 * t.rsi.d
        IN  /\ trend_info.status = "returned"
            /\ IsNum(t.sma_short) /\ IsNum(t.sma_long) /\ IsNum(t.rsi)
            /\ t.trend \in {"bullish", "bearish", "neutral"}
            /\ t.trend = "bullish" <=> up
            /\ t.trend = "bearish" <=> down
            /\ t.trend = "neutral" <=> (~up /\ ~down)
            /\ ~(up /\ down)

\* a bullish label on the inclusive bound rsi = 40
C3_Witness ==
    /\ Analyzed /\ Len(history.closes) >= MA_LONG
    /\ trend_info.info.trend = "bullish"
    /\ trend_info.info.rsi = Rat(40, 1)

(***************************************************************************)
(* Properties of parse_option_contract (SpecParse).                        *)
(***************************************************************************)
Parsed == parsed.status # "pending"
NumOrNone(val) == val.k \in {"none", "num"}

\* C7: the mark is the bid/ask midpoint when bid and ask are present and
\* ask > 0, else the last-trade price when present, else absent; and it is
\* never negative.  (Stated for records whose bid, ask and last-trade price
\* are numbers or absent.)
C7_MarkDerivation ==
    (Parsed /\ NumOrNone(raw.bid_price) /\ NumOrNone(raw.ask_price)
        /\ NumOrNone(raw.last_price)) =>
        LET m == parsed.c.mark
        IN  /\ parsed.status = "ok"
            /\ IF raw.bid_price.k = "num" /\ raw.ask_price.k = "num"
                  /\ raw.ask_price.v > 0
               THEN m.k = "num" /\ m.n * 200 = (raw.bid_price.v + raw.ask_price.v) * m.d
               ELSE IF raw.last_price.k = "num"
               THEN m.k = "num" /\ m.n * 100 = raw.last_price.v * m.d
               ELSE m = None
            /\ ~(m.k = "num" /\ m.n < 0)

\* C8: parse_option_contract returns a normalized record for every raw
\* record and never raises; a field that fails to parse becomes absent.
C8_ParseTotal ==
    Parsed =>
        /\ parsed.status = "ok"
        /\ raw.strike_price.k = "text" => parsed.c.strike_price = None
        /\ raw.delta.k = "text" => parsed.c.delta = None
        /\ raw.theta.k = "text" => parsed.c.theta = None
        /\ raw.open_interest.k = "text" => parsed.c.open_interest = 0

(***************************************************************************)
(* Properties of pick_option_for_trend (SpecPick).                         *)
(***************************************************************************)
Picked == picked.status # "pending"
\* the call reached the filter loop and the loop ran to its end
Filtered ==
    /\ picked.status = "returned"
    /\ trend_in.trend \in {"bullish", "bearish"}
    /\ chain.results # <<>>
\* the places of the chain whose contract is eligible
EligiblePlaces == {j \in 1..Len(chain.results) : EligibleRaw(chain.results[j], today)}
CandidatePlaces == {picked.candidates[m].pos : m \in 1..Len(picked.candidates)}

\* C4: a contract of the chain is in the candidate list iff it is eligible
\* (expiration a date, strike present, MIN_DTE <= dte <= MAX_DTE, open
\* interest >= MIN_OPEN_INTEREST, delta present, mark present and > 0); the
\* contract of a returned Signal is eligible and no ineligible contract is
\* ever among the candidates.
C4_CandidatesAreTheEligible ==
    Picked =>
        /\ CandidatePlaces \subseteq EligiblePlaces
        /\ Filtered => CandidatePlaces = EligiblePlaces
        /\ picked.has_signal => picked.signal.pos \in EligiblePlaces

\* a Signal from a chain of two that holds one eligible contract and one
\* ineligible one, which stayed out of the candidates
C4_Witness ==
    /\ picked.has_signal
    /\ Len(chain.results) = 2
    /\ Cardinality(EligiblePlaces) = 1
    /\ CandidatePlaces = EligiblePlaces

\* the ranking key of the contract at place j, from the raw record: the
\* distance of its delta to the target in hundredths, and its dte
TargetOf(trend) == IF trend = "bullish" THEN TARGET_DELTA_CALL ELSE TARGET_DELTA_PUT
DistanceAt(j) == Abs(chain.results[j].delta.v - TargetOf(trend_in.trend))
DteAt(j) == chain.results[j].expiration_date.v - today

C6_ProjectionJoint ==
    picked.has_signal =>
        LET g == picked.signal
            absent == {f \in {g.projected_underlying_change, g.projected_option_change,
                              g.projected_return_pct} : f = None}
            present == {f \in {g.projected_underlying_change,
                               g.projected_option_change,
                               g.projected_return_pct} : f.k = "num"}
        IN  /\ absent = {} \/ present = {}
            /\ present = {} <=>
                  (g.underlying_price = None \/ g.mark = None \/ g.mark.n = 0)

\* a Signal without an underlying price: neither the chain nor trend_info has one
C6_Witness ==
    /\ picked.has_signal
    /\ picked.signal.underlying_price = None
    /\ picked.signal.projected_return_pct = None

\* C10: with an underlying price, projected_underlying_change is the price
\* times +5% (bullish) or -5% (bearish), projected_option_change is delta times
\* that, projected_return_pct is that over the mark times 100; 100, bullish,
\* 0.30 and 2.50 give 5.0, 1.5 and 60.0.
C10_ProjectionValues ==
    (picked.has_signal /\ picked.signal.underlying_price # None) =>
        LET g == picked.signal
            u == g.underlying_price
            puc == g.projected_underlying_change
            poc == g.projected_option_change
            ret == g.projected_return_pct
            pct == IF g.trend = "bullish" THEN 5 ELSE -5
        IN  /\ puc.k = "num" /\ poc.k = "num" /\ ret.k = "num"
            \* puc = u * pct / 100
            /\ puc.n * u.d * 100 = u.n * pct * puc.d
            \* poc = delta * puc
            /\ poc.n * g.delta.d * puc.d = g.delta.n * puc.n * poc.d
            \* ret = poc / mark * 100
            /\ ret.n * poc.d * g.mark.n = 100 * poc.n * g.mark.d * ret.d
            /\ (u = Rat(100, 1) /\ g.trend = "bullish" /\ g.delta = Rat(3, 10)
                   /\ g.mark = Rat(5, 2)) =>
                  (puc = Rat(5, 1) /\ poc = Rat(3, 2) /\ ret = Rat(60, 1))

\* the worked case: underlying 100, bullish, delta 0.30, mark 2.50
C10_Witness ==
    /\ picked.has_signal
    /\ picked.signal.underlying_price = Rat(100, 1)
    /\ picked.signal.trend = "bullish"
    /\ picked.signal.delta = Rat(3, 10)
    /\ picked.signal.mark = Rat(5, 2)
    /\ picked.signal.projected_return_pct = Rat(60, 1)

====
